---- MODULE Spec2Model ----
(***************************************************************************)
(* A model of the indexed word-narrowing engine of wordle.py: the three    *)
(* filter classes, the information metrics and the Engine with its pool     *)
(* (possible_words), predicate index (includeset_dict) and applied-filters  *)
(* log (current_filters).                                                   *)
(*                                                                          *)
(* Words are sequences of one-character strings.  Python positions are      *)
(* 0-based, so the character at Python position pos is word[pos + 1].       *)
(* A filter is a record of its class (tag) and fields.  The dict and the    *)
(* sets of filters find a key by hash and then by __eq__ (SameKey), which   *)
(* for these classes is the same as the two records being equal.            *)
(*                                                                          *)
(* Every action is one whole call on the engine, index lookups included:    *)
(* includeset_dict is a defaultdict, so reading a missing key stores it.    *)
(* A call that raises leaves in the state what it did before raising.       *)
(***************************************************************************)
EXTENDS Integers, Sequences, FiniteSets, TLC

(***************************************************************************)
(* Bounds and input universes                                               *)
(***************************************************************************)

\* string.ascii_lowercase, cut down to two letters
Alphabet == {"a", "b"}

\* the words an initial pool is drawn from: all words of length 2 over Alphabet
Vocabulary == {<<"a", "b">>, <<"b", "a">>, <<"a", "a">>, <<"b", "b">>}

\* the probes handed to entropy and step: distinct letters, a repeated
\* letter, a character outside the alphabet and a probe that is too short
Probes == {<<"a", "b">>, <<"a", "a">>, <<"a", "Z">>, <<"b">>}

\* largest initial pool
MaxPool == 3

\* largest number of calls made on one engine
MaxCalls == 2

VARIABLES
    possible_words,   \* Engine.possible_words: the pool, a set of words
    includeset_dict,  \* Engine.includeset_dict: filter -> set of words
    current_filters,  \* Engine.current_filters: list of applied filter tuples
    initial_words,    \* history: the pool the engine was constructed with
    calls,            \* history: the number of calls made so far
    last,             \* history: the last call, its arguments and its result
    lhs, rhs,         \* operands of a filter comparison
    eq_result         \* outcome of lhs == rhs

vars == <<possible_words, includeset_dict, current_filters, initial_words,
          calls, last, lhs, rhs, eq_result>>

(***************************************************************************)
(* The filter classes                                                       *)
(***************************************************************************)

IncludeCharFilter(c) == [tag |-> "includes", char |-> c]

HasCharInPosFilter(c, p) == [tag |-> "haspos", char |-> c, pos |-> p]

DoesNotHaveCharFilter(c) == [tag |-> "doesnot", char |-> c]

Chars(word) == {word[i] : i \in DOMAIN word}

\* IncludeCharFilter.__call__: self.char in candidate
IncludeCall(self, candidate) == self.char \in Chars(candidate)

\* HasCharInPosFilter.__call__: candidate[self.pos] == self.char; a position
\* past the end raises IndexError, so the candidate does not pass the filter
HasPosCall(self, candidate) ==
    /\ self.pos + 1 \in DOMAIN candidate
    /\ candidate[self.pos + 1] = self.char

\* DoesNotHaveCharFilter.__call__: self.char not in candidate
DoesNotCall(self, candidate) == self.char \notin Chars(candidate)

\* filter(candidate), dispatched on the class of the filter
Call(f, candidate) ==
    CASE f.tag = "includes" -> IncludeCall(f, candidate)
      [] f.tag = "haspos"   -> HasPosCall(f, candidate)
      [] f.tag = "doesnot"  -> DoesNotCall(f, candidate)

\* __hash__ of the three classes: the hash of a tuple that ends in a class
\* specific string; distinct tuples are taken to hash differently
FilterHash(f) ==
    IF f.tag = "haspos" THEN <<f.char, f.pos, f.tag>> ELSE <<f.char, f.tag>>

\* IncludeCharFilter.__eq__ and DoesNotHaveCharFilter.__eq__
CharEq(self, value) == IF self.char = value.char THEN "True" ELSE "False"

\* HasCharInPosFilter.__eq__: value.pos is only read when the chars agree,
\* and reading it from a filter that has no pos raises AttributeError
HasPosEq(self, value) ==
    IF self.char # value.char THEN "False"
    ELSE IF "pos" \notin DOMAIN value THEN "AttributeError"
    ELSE IF self.pos = value.pos THEN "True" ELSE "False"

\* a == b: Python calls type(a).__eq__(a, b)
FilterEq(a, b) == IF a.tag = "haspos" THEN HasPosEq(a, b) ELSE CharEq(a, b)

\* a and b are the same key of a dict or the same member of a set: their
\* hashes agree and a == b; this holds exactly when the records are equal
SameKey(a, b) == FilterHash(a) = FilterHash(b) /\ FilterEq(a, b) = "True"

(***************************************************************************)
(* Information metrics.  A probability is the pair num/den the code divides *)
(* (both are set sizes); -log2 is taken from a table in units of 1/1000 bit *)
(***************************************************************************)

\* round(1000 * log2(n)) for n = 1 .. 8
Log2Milli == <<0, 1000, 1585, 2000, 2322, 2585, 2807, 3000>>

\* a division that guards the divisor, len(a) / max(len(b), 1)
TrueDivGuarded(n, d) == [ok |-> TRUE, num |-> n, den |-> IF d = 0 THEN 1 ELSE d]

\* len(a) / len(b): raises ZeroDivisionError when b is empty
TrueDiv(n, d) == [ok |-> d # 0, num |-> n, den |-> d]

\* information with the sign of the logarithm lost: log2(p)
informationSignLost(p) ==
    IF p.num <= 0 THEN 0 ELSE Log2Milli[p.num] - Log2Milli[p.den]

\* information(p): 0 if p <= 0, else -log2(p) = log2(den) - log2(num)
information(p) ==
    IF p.num <= 0 THEN 0 ELSE Log2Milli[p.den] - Log2Milli[p.num]

\* expected_information(p) = p * information(p), kept as the numerator over
\* p.den: the value is this number divided by 1000 * p.den bits
expected_information(p) == p.num * information(p)

(***************************************************************************)
(* Engine helpers                                                           *)
(***************************************************************************)

\* the position_filters list built for position i (1-based) of word;
\* the include filter is added at the first occurrence of the char only
position_filters(word, i) ==
    {DoesNotHaveCharFilter(word[i]), HasCharInPosFilter(word[i], i - 1)}
    \cup (IF \A j \in 1..(i - 1) : word[j] # word[i]
          THEN {IncludeCharFilter(word[i])} ELSE {})

RECURSIVE product(_, _)
\* itertools.product over the position_filters of the first n positions
product(word, n) ==
    IF n = 0 THEN {<<>>}
    ELSE {Append(t, f) : t \in product(word, n - 1),
                         f \in position_filters(word, n)}

\* Engine.build_word_filtersets
build_word_filtersets(word) == product(word, Len(word))

\* Engine.build_word_includeset
build_word_includeset(word) ==
    {HasCharInPosFilter(word[i], i - 1) : i \in DOMAIN word}
    \cup {IncludeCharFilter(c) : c \in Chars(word)}
    \cup {DoesNotHaveCharFilter(c) : c \in Alphabet \ Chars(word)}

\* Engine.build_includeset_dict for a pool
build_includeset_dict(words) ==
    [f \in UNION {build_word_includeset(w) : w \in words} |->
        {w \in words : f \in build_word_includeset(w)}]

\* the value of includeset_dict[f]: a defaultdict(set) yields an empty set
\* for a missing key; f is found under the key k with SameKey(k, f), which
\* is the key equal to f
Lookup(dict, f) == IF f \in DOMAIN dict THEN dict[f] ELSE {}

\* the dict after includeset_dict[f] was read for every f in filters:
\* a defaultdict stores the empty set it made for each missing key
Touched(dict, filters) ==
    [f \in (DOMAIN dict) \cup filters |-> Lookup(dict, f)]

FiltersOf(filter_sets) == UNION {{fs[i] : i \in DOMAIN fs} : fs \in filter_sets}

\* Engine.filter_current_guesses: the word set of each filter set,
\* possible_words.intersection(*[includeset_dict[f] for f in filter_set])
filter_current_guesses(words, dict, filter_sets) ==
    [fs \in filter_sets |->
        {w \in words : \A i \in DOMAIN fs : w \in Lookup(dict, fs[i])}]

RECURSIVE SumOver(_, _)
\* sum(term[x] for x in S)
SumOver(term, S) ==
    IF S = {} THEN 0
    ELSE LET x == CHOOSE y \in S : TRUE
         IN  term[x] + SumOver(term, S \ {x})

\* Engine.entropy, on a pool and the word sets of the probe's filter sets
entropy(words, word_sets) ==
    LET n == Cardinality(words)
        p == [fs \in DOMAIN word_sets |-> TrueDiv(Cardinality(word_sets[fs]), n)]
    IN  IF \E fs \in DOMAIN word_sets : ~p[fs].ok
        THEN [ok |-> FALSE, value |-> 0]
        ELSE [ok |-> TRUE,
              value |-> SumOver([fs \in DOMAIN word_sets |->
                                    expected_information(p[fs])],
                                DOMAIN word_sets)]

(***************************************************************************)
(* The engine                                                               *)
(***************************************************************************)

NoSets == [fs \in {} |-> {}]

NoCall == [op |-> "init", word |-> <<>>, combo |-> <<>>, outcome |-> "ok",
           word_sets |-> NoSets, expected |-> 0, actual |-> 0,
           before |-> {}]

\* the filters a comparison is made between
Filters ==
    UNION {{IncludeCharFilter(c), DoesNotHaveCharFilter(c)} \cup
           {HasCharInPosFilter(c, p) : p \in {0, 1, 2}} :
           c \in Alphabet \cup {"Z"}}

\* Engine.init_guesses: the pool and the index rebuilt from it
init_guesses(guesses) ==
    /\ possible_words' = guesses
    /\ includeset_dict' = build_includeset_dict(guesses)

\* Engine.__init__ on a list of words
Init ==
    /\ initial_words \in {ws \in SUBSET Vocabulary : Cardinality(ws) <= MaxPool}
    /\ possible_words = initial_words
    /\ includeset_dict = build_includeset_dict(initial_words)
    /\ current_filters = <<>>
    /\ calls = 0
    /\ last = NoCall
    /\ lhs = IncludeCharFilter("a")
    /\ rhs = IncludeCharFilter("a")
    /\ eq_result = "none"

\* e.entropy(word) called by the user of the engine
Entropy(word) ==
    LET filter_sets == build_word_filtersets(word)
        word_sets == filter_current_guesses(possible_words, includeset_dict,
                                            filter_sets)
        e == entropy(possible_words, word_sets)
    IN  /\ calls < MaxCalls
        /\ calls' = calls + 1
        /\ includeset_dict' = Touched(includeset_dict, FiltersOf(filter_sets))
        /\ last' = [op |-> "entropy", word |-> word, combo |-> <<>>,
                    outcome |-> IF e.ok THEN "ok" ELSE "ZeroDivisionError",
                    word_sets |-> word_sets, expected |-> e.value,
                    actual |-> 0, before |-> possible_words]
        /\ UNCHANGED <<possible_words, current_filters, initial_words,
                       lhs, rhs, eq_result>>

\* e.narrow_guesses(filters) called by the user of the engine
Narrow(filters) ==
    LET word_sets == filter_current_guesses(possible_words, includeset_dict,
                                            {filters})
    IN  /\ calls < MaxCalls
        /\ calls' = calls + 1
        /\ includeset_dict' = Touched(includeset_dict, FiltersOf({filters}))
        /\ last' = [op |-> "narrow", word |-> <<>>, combo |-> filters,
                    outcome |-> "ok", word_sets |-> word_sets,
                    expected |-> 0, actual |-> 0, before |-> possible_words]
        /\ UNCHANGED <<possible_words, current_filters, initial_words,
                       lhs, rhs, eq_result>>

\* e.step(word, new_filter_set)
Step(word, new_filter_set) ==
    LET narrowed == filter_current_guesses(possible_words, includeset_dict,
                                           {new_filter_set})
        new_guesses == narrowed[new_filter_set]
        dict1 == Touched(includeset_dict, FiltersOf({new_filter_set}))
        p == TrueDiv(Cardinality(new_guesses), Cardinality(possible_words))
        filter_sets == build_word_filtersets(word)
        word_sets == filter_current_guesses(possible_words, dict1, filter_sets)
        dict2 == Touched(dict1, FiltersOf(filter_sets))
        e == entropy(possible_words, word_sets)
    IN  /\ calls < MaxCalls
        /\ calls' = calls + 1
        /\ IF p.ok /\ e.ok
           THEN /\ init_guesses(new_guesses)
                /\ current_filters' = Append(current_filters, new_filter_set)
                /\ last' = [op |-> "step", word |-> word,
                            combo |-> new_filter_set, outcome |-> "ok",
                            word_sets |-> narrowed, expected |-> e.value,
                            actual |-> information(p),
                            before |-> possible_words]
           ELSE \* a division raised: nothing but the index lookups made
                \* before it has happened
                /\ includeset_dict' = IF p.ok THEN dict2 ELSE dict1
                /\ last' = [op |-> "step", word |-> word,
                            combo |-> new_filter_set,
                            outcome |-> "ZeroDivisionError",
                            word_sets |-> narrowed, expected |-> 0,
                            actual |-> 0, before |-> possible_words]
                /\ UNCHANGED <<possible_words, current_filters>>
        /\ UNCHANGED <<initial_words, lhs, rhs, eq_result>>

\* the filter tuples handed to narrow_guesses
Combos == UNION {build_word_filtersets(w) : w \in Probes}

EntropyCall == \E word \in Probes : Entropy(word)

NarrowCall == \E filters \in Combos : Narrow(filters)

\* the observed combination is one of the filter sets of the probe, as in main
StepCall ==
    \E word \in Probes : \E filters \in build_word_filtersets(word) :
        Step(word, filters)

Next == EntropyCall \/ NarrowCall \/ StepCall

Spec == Init /\ [][Next]_vars

(***************************************************************************)
(* Comparing two filters                                                    *)
(***************************************************************************)

InitEq ==
    /\ lhs \in Filters
    /\ rhs \in Filters
    /\ eq_result = "none"
    /\ initial_words = {}
    /\ possible_words = {}
    /\ includeset_dict = build_includeset_dict({})
    /\ current_filters = <<>>
    /\ calls = 0
    /\ last = NoCall

\* lhs == rhs
Compare ==
    /\ eq_result = "none"
    /\ eq_result' = FilterEq(lhs, rhs)
    /\ UNCHANGED <<lhs, rhs, initial_words, possible_words, includeset_dict,
                   current_filters, calls, last>>

NextEq == Compare

SpecEq == InitEq /\ [][NextEq]_vars

(***************************************************************************)
(* Properties                                                               *)
(***************************************************************************)

\* the word length the pools of this model have
WordLen == Len(CHOOSE w \in Vocabulary : TRUE)

\* a probe of the wrong length or with a character outside the alphabet
Malformed(word) == Len(word) # WordLen \/ ~(Chars(word) \subseteq Alphabet)

\* the filters over the alphabet and the positions of a word
AlphabetFilters ==
    UNION {{IncludeCharFilter(c), DoesNotHaveCharFilter(c)} \cup
           {HasCharInPosFilter(c, p - 1) : p \in 1..WordLen} : c \in Alphabet}

Passes(filter_set, w) == \A i \in DOMAIN filter_set : Call(filter_set[i], w)

EntropyReturned == last.op = "entropy" /\ last.outcome = "ok"

\* C1: after step(probe, combo) on a non-empty pool the new pool is no larger
\* than the old one, every word kept passes every filter of combo and every
\* word removed fails at least one filter of combo.
C1_StepKeepsExactlyThePassingWords ==
    (last.op = "step" /\ last.before # {}) =>
        /\ Cardinality(possible_words) <= Cardinality(last.before)
        /\ \A w \in possible_words : Passes(last.combo, w)
        /\ \A w \in last.before \ possible_words : ~Passes(last.combo, w)

\* C2: the word sets of the filter sets generated for a probe partition a
\* non-empty pool: every pool word lies in exactly one of them, so their
\* sizes add up to the size of the pool.
C2_WordSetsPartitionThePool ==
    (last.op = "entropy" /\ last.before # {}) =>
        /\ \A w \in last.before :
              Cardinality({fs \in DOMAIN last.word_sets :
                              w \in last.word_sets[fs]}) = 1
        /\ SumOver([fs \in DOMAIN last.word_sets |->
                       Cardinality(last.word_sets[fs])],
                   DOMAIN last.word_sets) = Cardinality(last.before)

\* the initial words that pass every filter of every logged filter set
ConsistentWords ==
    {w \in initial_words :
        \A k \in DOMAIN current_filters : Passes(current_filters[k], w)}

\* C3: in every state reached by step calls the pool is exactly the set of
\* initial words passing every logged filter, the log is extended by the
\* observed combination of each step that returns and by nothing else, and
\* the pool never regrows.
C3_PoolIsTheWordsConsistentWithTheLog ==
    [][/\ possible_words' = ConsistentWords'
       /\ possible_words' \subseteq possible_words
       /\ current_filters' =
             IF last'.op = "step" /\ last'.outcome = "ok"
             THEN Append(current_filters, last'.combo)
             ELSE current_filters]_vars

\* C4: in every reachable state every index entry is exactly the set of pool
\* words passing its filter, and every filter over the alphabet that some
\* pool word passes has an entry.
C4_IndexReflectsThePool ==
    /\ \A f \in DOMAIN includeset_dict :
          includeset_dict[f] = {w \in possible_words : Call(f, w)}
    /\ \A f \in AlphabetFilters :
          (\E w \in possible_words : Call(f, w)) => f \in DOMAIN includeset_dict

\* C5: entropy or step on an empty pool raises EmptyPoolError and leaves the
\* pool, the index and the log unchanged.
C5_EmptyPoolIsRejectedUntouched ==
    [][(possible_words = {} /\ last'.op \in {"entropy", "step"}) =>
          /\ last'.outcome = "EmptyPoolError"
          /\ UNCHANGED <<possible_words, includeset_dict, current_filters>>]_vars

\* C6: entropy(probe) and step(probe, combo) raise MalformedProbeError and
\* leave the pool unchanged when the probe has the wrong length or holds a
\* character outside the alphabet.
C6_MalformedProbeIsRejected ==
    (last.op \in {"entropy", "step"} /\ Malformed(last.word)) =>
        /\ last.outcome = "MalformedProbeError"
        /\ possible_words = last.before

\* C7: narrow and entropy leave the pool, the index (key set and entries) and
\* the log as they were, and an entropy call repeated on the same probe
\* returns the same result.
C7_NarrowAndEntropyMutateNothing ==
    [][/\ last'.op \in {"narrow", "entropy"} =>
             UNCHANGED <<possible_words, includeset_dict, current_filters>>
       /\ (last.op = "entropy" /\ last'.op = "entropy"
           /\ last'.word = last.word) =>
             /\ last'.outcome = last.outcome
             /\ last'.expected = last.expected]_vars

\* C8: two filters compare equal iff they are of the same kind and have the
\* same fields; an include filter and an exclude filter of the same
\* character are not equal.
C8_EqualIffSameKindAndFields ==
    eq_result # "none" => (eq_result = "True" <=> lhs = rhs)

\* C9: an entropy that is returned is non-negative, and it is 0 iff the pool
\* has at most one word or every word set of the probe is empty or the
\* whole pool.
C9_EntropyNonNegativeAndZeroIffNoSplit ==
    EntropyReturned =>
        /\ last.expected >= 0
        /\ last.expected = 0 <=>
              \/ Cardinality(last.before) <= 1
              \/ \A fs \in DOMAIN last.word_sets :
                    last.word_sets[fs] \in {{}, last.before}

\* an entropy call that split a pool of several words
C9_Witness ==
    /\ EntropyReturned
    /\ Cardinality(last.before) >= 2
    /\ last.expected > 0

\* C10: a step on a non-empty pool whose combination matches no pool word
\* returns, reports actual_information 0 as a step matching the whole pool
\* does, appends the combination to the log and empties the pool; an empty
\* pool stays empty, and every entropy or step call on it fails with a
\* division by zero.
C10_EmptyingStepThenDivisionByZero ==
    [][/\ (last'.op = "step" /\ possible_words # {}
           /\ last'.word_sets[last'.combo] \in {{}, possible_words}) =>
             /\ last'.outcome = "ok"
             /\ last'.actual = 0
             /\ possible_words' = last'.word_sets[last'.combo]
             /\ current_filters' = Append(current_filters, last'.combo)
       /\ possible_words = {} => possible_words' = {}
       /\ (possible_words = {} /\ last'.op \in {"entropy", "step"}) =>
             last'.outcome = "ZeroDivisionError"]_vars

\* a call that failed on a pool an earlier step had emptied
C10_Witness ==
    /\ initial_words # {}
    /\ Len(current_filters) >= 1
    /\ possible_words = {}
    /\ last.before = {}
    /\ last.op \in {"entropy", "step"}
    /\ last.outcome = "ZeroDivisionError"

====
